---- MODULE Spec2Model ----
(***************************************************************************)
(* Model of src/eval.py: the Hydra/Lightning evaluation entry point.       *)
(* main() is a linear pipeline: set up logging, validate cfg.ckpt_path,    *)
(* instantiate datamodule and model, assemble callbacks and loggers,       *)
(* instantiate the trainer and call evaluate_model, which runs             *)
(* trainer.test against the checkpoint.  The external collaborators        *)
(* (hydra.utils.instantiate, trainer.test) either return or raise; which   *)
(* one is fixed by the environment chosen in Init.  The entry point is run *)
(* twice on the same configuration to compare the two runs' call traces.   *)
(***************************************************************************)
EXTENDS Integers, Sequences, FiniteSets, TLC

VARIABLES
    cfg,         \* the composed configuration handed to main (read-only)
    fault,       \* what the environment makes fail
    run,         \* 1 or 2: which of the two runs of the entry point this is
    pc,          \* main's position
    datamodule,  \* main's locals
    model,
    callbacks,
    loggers,
    trainer,
    acc,         \* the list local to instantiate_callbacks / instantiate_loggers
    idx,         \* position of the for loop in the mapping's items
    calls,       \* trace of hydra.utils.instantiate calls of this run
    tests,       \* trace of trainer.test calls of this run
    steps,       \* orchestration steps begun in this run, in order
    warnings,    \* log.warning messages of this run
    error,       \* the exception that ended the run, if any
    prevCalls,   \* calls and tests of the first run, kept for comparison
    prevTests

vars == <<cfg, fault, run, pc, datamodule, model, callbacks, loggers, trainer, acc,
          idx, calls, tests, steps, warnings, error, prevCalls, prevTests>>

-----------------------------------------------------------------------------
(* Bounds of the model *)

\* longest callbacks mapping enumerated
MaxCallbacks == 2
\* longest logger mapping enumerated
MaxLoggers == 1

-----------------------------------------------------------------------------
(* Configuration values *)

\* type identifiers (_target_) of callback specifications
CallbackTargets == {"A", "B"}
\* type identifiers of logger specifications
LoggerTargets == {"L"}
\* type identifiers of cfg.data, cfg.model, cfg.trainer
DataTarget == "D"
ModelTarget == "M"
TrainerTarget == "T"

\* an entry of a callbacks/logger mapping: a sub-config that carries the
\* _target_ key (has) or lacks it
EntriesOf(T) == {[has |-> TRUE, target |-> t] : t \in T}
                  \cup {[has |-> FALSE, target |-> ""]}

SeqsUpTo(S, n) == UNION {[1..k -> S] : k \in 0..n}

\* cfg.get("callbacks") / cfg.get("logger"): the key is absent (None) or holds a
\* mapping, listed in its iteration order
MappingsOf(T, n) == {[present |-> FALSE, items |-> <<>>]}
                      \cup {[present |-> TRUE, items |-> s] : s \in SeqsUpTo(EntriesOf(T), n)}

\* paths that exist on disk; "." is the working directory
FileSystem == {".", "/ckpt/best.ckpt"}

\* cfg.ckpt_path: key absent, explicit null, or a string
CkptValues == {[kind |-> "absent", val |-> ""], [kind |-> "null", val |-> ""]}
                \cup {[kind |-> "str", val |-> s] :
                        s \in {"", "/ckpt/best.ckpt", "/nonexistent/file.ckpt"}}

Configs == [ckpt_path : CkptValues,
            data      : {[has |-> TRUE, target |-> DataTarget]},
            model     : {[has |-> TRUE, target |-> ModelTarget]},
            trainer   : {[has |-> TRUE, target |-> TrainerTarget]},
            callbacks : MappingsOf(CallbackTargets, MaxCallbacks),
            logger    : MappingsOf(LoggerTargets, MaxLoggers)]

\* what the environment makes fail: nothing, the construction of one type, or
\* the trainer's test routine
Faults == {"none", "test", DataTarget, ModelTarget, TrainerTarget}
            \cup CallbackTargets \cup LoggerTargets

-----------------------------------------------------------------------------
(* Values *)

NoObject == [target |-> "", serial |-> 0, callbacks |-> <<>>, logger |-> <<>>]
NoError == [type |-> "none", msg |-> ""]

\* hydra.utils.instantiate(spec, **kw) raises for the faulty type
InstantiateRaises(spec) == spec.target = fault

\* the object hydra.utils.instantiate(spec, callbacks=cb, logger=lg) returns;
\* serial is the object's identity: its position among the run's constructions
Instantiated(spec, cb, lg) ==
    [target |-> spec.target, serial |-> Len(calls) + 1, callbacks |-> cb, logger |-> lg]

\* the record of one instantiation call in the run's trace
CallOf(spec, cb, lg) == [target |-> spec.target, callbacks |-> cb, logger |-> lg]

InstantiationError(spec) == [type |-> "InstantiationError", msg |-> spec.target]


-----------------------------------------------------------------------------
(* Checkpoint validation, lines 70-75 *)

\* cfg.ckpt_path: attribute access on the struct-mode DictConfig that hydra.main
\* passes raises for a key that is not in the config
\* variant: a config outside struct mode, where a missing key reads as None
AttrAccessRaises_lenient(c) == FALSE
AttrAccessRaises(c) == c.kind = "absent"

\* cfg.ckpt_path is None: the value read is None
\* variant: the None test left out
IsNone_never(c) == FALSE
IsNone(c) == c.kind # "str"

\* Path(s): pathlib normalises the empty string to the working directory
PathOf(s) == IF s = "" THEN "." ELSE s

\* Path(cfg.ckpt_path).exists()
\* variant: the existence test left out
PathExists_always(s) == TRUE
PathExists(s) == PathOf(s) \in FileSystem

\* f"No checkpoint found at {cfg.ckpt_path}"
NotFoundMessage(s) == "No checkpoint found at " \o s

\* the exception checkpoint validation raises for c, NoError if it passes
ValidationError(c) ==
    IF AttrAccessRaises(c) THEN [type |-> "ConfigAttributeError", msg |-> "ckpt_path"]
    ELSE IF IsNone(c) THEN [type |-> "ValueError", msg |-> "No checkpoint path provided"]
    ELSE IF c.kind # "str" THEN [type |-> "TypeError", msg |-> "Path"]
    ELSE IF ~PathExists(c.val) THEN [type |-> "FileNotFoundError", msg |-> NotFoundMessage(c.val)]
    ELSE NoError

-----------------------------------------------------------------------------
(* Callback / logger assembly, lines 20-45 *)

\* not callback_cfg: None and the empty mapping are falsy
\* variant: `callback_cfg is None` in place of `not callback_cfg`
IsFalsy_noneOnly(m) == ~m.present
IsFalsy(m) == ~m.present \/ Len(m.items) = 0

\* "_target_" in cb_conf
\* variant: every entry is instantiated
HasTarget_always(e) == TRUE
HasTarget(e) == e.has

\* callbacks: List[L.Callback] = []   /   loggers: List[Logger] = []
\* variant: one list shared by all calls (a mutable default argument)
NewList_shared == acc
NewList == <<>>

\* callbacks.append(obj)
AppendTo(list, obj) == Append(list, obj)

\* callbacks=callbacks, logger=loggers: the keyword arguments of line 95-96
\* variant: logger=loggers left out
TrainerKwargs_noLogger == [callbacks |-> callbacks, logger |-> <<>>]
TrainerKwargs == [callbacks |-> callbacks, logger |-> loggers]

-----------------------------------------------------------------------------
(* Evaluation driver, lines 47-59 *)

\* ckpt_path=cfg.ckpt_path
\* variant: trainer.test(model, datamodule), ckpt_path left at its default None
TestCkptArg_default == [kind |-> "null", val |-> ""]
TestCkptArg == cfg.ckpt_path

\* task_wrapper around evaluate_model: an exception of the wrapped function is
\* logged and raised again, a normal return is passed on
task_wrapper(raised) == IF raised THEN "failed" ELSE "done"

-----------------------------------------------------------------------------
Init ==
    /\ cfg \in Configs
    /\ fault \in Faults
    /\ run = 1
    /\ pc = "setup_logger"
    /\ datamodule = NoObject
    /\ model = NoObject
    /\ trainer = NoObject
    /\ callbacks = <<>>
    /\ loggers = <<>>
    /\ acc = <<>>
    /\ idx = 0
    /\ calls = <<>>
    /\ tests = <<>>
    /\ steps = <<>>
    /\ warnings = <<>>
    /\ error = NoError
    /\ prevCalls = <<>>
    /\ prevTests = <<>>

\* an exception leaves main: the run ends with it
Raise(e) ==
    /\ pc' = "failed"
    /\ error' = e

\* lines 64-68: log_dir = Path(cfg.paths.log_dir); setup_logger(...)
main_setup_logger ==
    /\ pc = "setup_logger"
    /\ steps' = Append(steps, "setup_logger")
    /\ pc' = "validate"
    /\ UNCHANGED <<cfg, fault, run, datamodule, model, callbacks, loggers, trainer, acc,
                   idx, calls, tests, warnings, error, prevCalls, prevTests>>

\* lines 70-75
main_validate_ckpt ==
    /\ pc = "validate"
    /\ steps' = Append(steps, "validate")
    /\ IF ValidationError(cfg.ckpt_path) # NoError
         THEN Raise(ValidationError(cfg.ckpt_path))
         ELSE pc' = "datamodule" /\ error' = error
    /\ UNCHANGED <<cfg, fault, run, datamodule, model, callbacks, loggers, trainer, acc,
                   idx, calls, tests, warnings, prevCalls, prevTests>>

\* lines 77-79
main_instantiate_datamodule ==
    /\ pc = "datamodule"
    /\ steps' = Append(steps, "datamodule")
    /\ calls' = Append(calls, CallOf(cfg.data, <<>>, <<>>))
    /\ IF InstantiateRaises(cfg.data)
         THEN Raise(InstantiationError(cfg.data)) /\ datamodule' = datamodule
         ELSE /\ datamodule' = Instantiated(cfg.data, <<>>, <<>>)
              /\ pc' = "model"
              /\ error' = error
    /\ UNCHANGED <<cfg, fault, run, model, callbacks, loggers, trainer, acc,
                   idx, tests, warnings, prevCalls, prevTests>>

\* lines 81-83
main_instantiate_model ==
    /\ pc = "model"
    /\ steps' = Append(steps, "model")
    /\ calls' = Append(calls, CallOf(cfg.model, <<>>, <<>>))
    /\ IF InstantiateRaises(cfg.model)
         THEN Raise(InstantiationError(cfg.model)) /\ model' = model
         ELSE /\ model' = Instantiated(cfg.model, <<>>, <<>>)
              /\ pc' = "callbacks"
              /\ error' = error
    /\ UNCHANGED <<cfg, fault, run, datamodule, callbacks, loggers, trainer, acc,
                   idx, tests, warnings, prevCalls, prevTests>>

\* line 86 enters instantiate_callbacks; lines 21-24
instantiate_callbacks_begin ==
    /\ pc = "callbacks"
    /\ steps' = Append(steps, "callbacks")
    /\ acc' = NewList
    /\ IF IsFalsy(cfg.callbacks)
         THEN /\ warnings' = Append(warnings, "No callback configs found! Skipping..")
              /\ callbacks' = acc'
              /\ pc' = "loggers"
              /\ idx' = idx
         ELSE /\ idx' = 1
              /\ pc' = "callbacks_loop"
              /\ UNCHANGED <<warnings, callbacks>>
    /\ UNCHANGED <<cfg, fault, run, datamodule, model, loggers, trainer,
                   calls, tests, error, prevCalls, prevTests>>

\* variant: a construction that raises is skipped and the loop goes on
instantiate_callbacks_iter_swallow ==
    /\ pc = "callbacks_loop"
    /\ idx <= Len(cfg.callbacks.items)
    /\ LET cb_conf == cfg.callbacks.items[idx] IN
         IF HasTarget(cb_conf)
           THEN /\ calls' = Append(calls, CallOf(cb_conf, <<>>, <<>>))
                /\ acc' = IF InstantiateRaises(cb_conf) THEN acc
                          ELSE AppendTo(acc, Instantiated(cb_conf, <<>>, <<>>))
           ELSE UNCHANGED <<calls, acc>>
    /\ idx' = idx + 1
    /\ UNCHANGED <<cfg, fault, run, pc, datamodule, model, callbacks, loggers, trainer,
                   tests, steps, warnings, error, prevCalls, prevTests>>

\* lines 26-29: one iteration of the loop over callback_cfg.items()
instantiate_callbacks_iter ==
    /\ pc = "callbacks_loop"
    /\ idx <= Len(cfg.callbacks.items)
    /\ LET cb_conf == cfg.callbacks.items[idx] IN
         IF HasTarget(cb_conf)
           THEN /\ calls' = Append(calls, CallOf(cb_conf, <<>>, <<>>))
                /\ IF InstantiateRaises(cb_conf)
                     THEN Raise(InstantiationError(cb_conf)) /\ UNCHANGED <<acc, idx>>
                     ELSE /\ acc' = AppendTo(acc, Instantiated(cb_conf, <<>>, <<>>))
                          /\ idx' = idx + 1
                          /\ UNCHANGED <<pc, error>>
           ELSE /\ idx' = idx + 1
                /\ UNCHANGED <<calls, acc, pc, error>>
    /\ UNCHANGED <<cfg, fault, run, datamodule, model, callbacks, loggers, trainer,
                   tests, steps, warnings, prevCalls, prevTests>>

\* variant: main goes on to the trainer without assembling the loggers
instantiate_callbacks_return_skip ==
    /\ pc = "callbacks_loop"
    /\ idx > Len(cfg.callbacks.items)
    /\ callbacks' = acc
    /\ pc' = "trainer"
    /\ UNCHANGED <<cfg, fault, run, datamodule, model, loggers, trainer, acc,
                   idx, calls, tests, steps, warnings, error, prevCalls, prevTests>>

\* line 31 and the assignment of line 86
instantiate_callbacks_return ==
    /\ pc = "callbacks_loop"
    /\ idx > Len(cfg.callbacks.items)
    /\ callbacks' = acc
    /\ pc' = "loggers"
    /\ UNCHANGED <<cfg, fault, run, datamodule, model, loggers, trainer, acc,
                   idx, calls, tests, steps, warnings, error, prevCalls, prevTests>>

\* line 89 enters instantiate_loggers; lines 35-38
instantiate_loggers_begin ==
    /\ pc = "loggers"
    /\ steps' = Append(steps, "loggers")
    /\ acc' = NewList
    /\ IF IsFalsy(cfg.logger)
         THEN /\ warnings' = Append(warnings, "No logger configs found! Skipping..")
              /\ loggers' = acc'
              /\ pc' = "trainer"
              /\ idx' = idx
         ELSE /\ idx' = 1
              /\ pc' = "loggers_loop"
              /\ UNCHANGED <<warnings, loggers>>
    /\ UNCHANGED <<cfg, fault, run, datamodule, model, callbacks, trainer,
                   calls, tests, error, prevCalls, prevTests>>

\* lines 40-43: one iteration of the loop over logger_cfg.items()
instantiate_loggers_iter ==
    /\ pc = "loggers_loop"
    /\ idx <= Len(cfg.logger.items)
    /\ LET lg_conf == cfg.logger.items[idx] IN
         IF HasTarget(lg_conf)
           THEN /\ calls' = Append(calls, CallOf(lg_conf, <<>>, <<>>))
                /\ IF InstantiateRaises(lg_conf)
                     THEN Raise(InstantiationError(lg_conf)) /\ UNCHANGED <<acc, idx>>
                     ELSE /\ acc' = AppendTo(acc, Instantiated(lg_conf, <<>>, <<>>))
                          /\ idx' = idx + 1
                          /\ UNCHANGED <<pc, error>>
           ELSE /\ idx' = idx + 1
                /\ UNCHANGED <<calls, acc, pc, error>>
    /\ UNCHANGED <<cfg, fault, run, datamodule, model, callbacks, loggers, trainer,
                   tests, steps, warnings, prevCalls, prevTests>>

\* line 45 and the assignment of line 89
instantiate_loggers_return ==
    /\ pc = "loggers_loop"
    /\ idx > Len(cfg.logger.items)
    /\ loggers' = acc
    /\ pc' = "trainer"
    /\ UNCHANGED <<cfg, fault, run, datamodule, model, callbacks, trainer, acc,
                   idx, calls, tests, steps, warnings, error, prevCalls, prevTests>>

\* lines 91-97
main_instantiate_trainer ==
    /\ pc = "trainer"
    /\ steps' = Append(steps, "trainer")
    /\ calls' = Append(calls, CallOf(cfg.trainer, TrainerKwargs.callbacks, TrainerKwargs.logger))
    /\ IF InstantiateRaises(cfg.trainer)
         THEN Raise(InstantiationError(cfg.trainer)) /\ trainer' = trainer
         ELSE /\ trainer' = Instantiated(cfg.trainer, TrainerKwargs.callbacks,
                                          TrainerKwargs.logger)
              /\ pc' = "evaluate"
              /\ error' = error
    /\ UNCHANGED <<cfg, fault, run, datamodule, model, callbacks, loggers, acc,
                   idx, tests, warnings, prevCalls, prevTests>>

\* line 100 enters evaluate_model; lines 54-58 call trainer.test
evaluate_model_call ==
    /\ pc = "evaluate"
    /\ steps' = Append(steps, "evaluate")
    /\ tests' = Append(tests, [ckpt_path |-> TestCkptArg, model |-> model,
                               datamodule |-> datamodule, trainer |-> trainer])
    /\ pc' = "testing"
    /\ UNCHANGED <<cfg, fault, run, datamodule, model, callbacks, loggers, trainer, acc,
                   idx, calls, warnings, error, prevCalls, prevTests>>

\* trainer.test returns its metrics (line 59 logs them) or raises
trainer_test_return ==
    /\ pc = "testing"
    /\ pc' = task_wrapper(fault = "test")
    /\ error' = IF fault = "test" THEN [type |-> "EvaluationError", msg |-> "test"]
                ELSE error
    /\ UNCHANGED <<cfg, fault, run, datamodule, model, callbacks, loggers, trainer, acc,
                   idx, calls, tests, steps, warnings, prevCalls, prevTests>>

\* the entry point is started again with the same configuration, file system
\* and environment: a new call of main, whose locals start unbound.  acc is
\* bound anew by line 21 / 35 before it is read, so its old value is dead.
NextRun ==
    /\ pc \in {"done", "failed"}
    /\ run = 1
    /\ run' = 2
    /\ prevCalls' = calls
    /\ prevTests' = tests
    /\ pc' = "setup_logger"
    /\ datamodule' = NoObject
    /\ model' = NoObject
    /\ trainer' = NoObject
    /\ callbacks' = <<>>
    /\ loggers' = <<>>
    /\ idx' = 0
    /\ calls' = <<>>
    /\ tests' = <<>>
    /\ steps' = <<>>
    /\ warnings' = <<>>
    /\ error' = NoError
    /\ UNCHANGED <<cfg, fault, acc>>

Next ==
    \/ main_setup_logger
    \/ main_validate_ckpt
    \/ main_instantiate_datamodule
    \/ main_instantiate_model
    \/ instantiate_callbacks_begin
    \/ instantiate_callbacks_iter
    \/ instantiate_callbacks_return
    \/ instantiate_loggers_begin
    \/ instantiate_loggers_iter
    \/ instantiate_loggers_return
    \/ main_instantiate_trainer
    \/ evaluate_model_call
    \/ trainer_test_return
    \/ NextRun

Spec == Init /\ [][Next]_vars


-----------------------------------------------------------------------------
(* Vocabulary of the properties *)

\* the orchestration steps of main in their fixed order
StepOrder == <<"setup_logger", "validate", "datamodule", "model",
               "callbacks", "loggers", "trainer", "evaluate">>

IsPrefix(s, t) == Len(s) <= Len(t) /\ \A i \in 1..Len(s) : s[i] = t[i]

Terminal == pc \in {"done", "failed"}

\* nothing has been constructed and the evaluation driver has not been invoked
NothingInstantiated ==
    /\ calls = <<>>
    /\ tests = <<>>
    /\ datamodule = NoObject
    /\ model = NoObject
    /\ trainer = NoObject
    /\ callbacks = <<>>
    /\ loggers = <<>>

\* the run is still in checkpoint validation or has ended with the exception etype
EndsInValidation(etype) ==
    /\ NothingInstantiated
    /\ pc \in {"setup_logger", "validate", "failed"}
    /\ pc = "failed" => error.type = etype

\* the configured string names something on disk ("" names the working directory)
Resolves(s) == s \in FileSystem \/ (s = "" /\ "." \in FileSystem)

\* the type identifiers of the entries of mapping m that carry one, in order
TargetsIn(m) ==
    LET withKey == SelectSeq(m.items, LAMBDA e : e.has)
    IN  [i \in 1..Len(withKey) |-> withKey[i].target]

TargetsOf(objs) == [i \in 1..Len(objs) |-> objs[i].target]

\* every specification the run instantiates does so without error
NoSpecFails ==
    /\ fault \notin {DataTarget, ModelTarget, TrainerTarget}
    /\ \A i \in 1..Len(TargetsIn(cfg.callbacks)) : TargetsIn(cfg.callbacks)[i] # fault
    /\ \A i \in 1..Len(TargetsIn(cfg.logger)) : TargetsIn(cfg.logger)[i] # fault

CkptOk == cfg.ckpt_path.kind = "str" /\ Resolves(cfg.ckpt_path.val)

Begun(step) == \E i \in 1..Len(steps) : steps[i] = step

\* the assembly named step has returned its list to main
Assembled(step) ==
    /\ Begun(step)
    /\ pc \notin {step, step \o "_loop"}
    /\ ~(pc = "failed" /\ steps[Len(steps)] = step)

-----------------------------------------------------------------------------
(* C1: with ckpt_path null, main fails with ValueError and nothing is ever *)
(* instantiated nor the evaluation driver invoked in that run.             *)
C1_NullCkptFailsFirst ==
    cfg.ckpt_path.kind = "null" => EndsInValidation("ValueError")

C1_Witness ==
    /\ cfg.ckpt_path.kind = "null"
    /\ pc = "failed"
    /\ error.type = "ValueError"

(* C2: with a ckpt_path string that names nothing on disk, main fails with *)
(* FileNotFoundError whose message names exactly the configured path,      *)
(* before any instantiation and before the evaluation driver.              *)
C2_MissingFileFailsFirst ==
    (cfg.ckpt_path.kind = "str" /\ ~Resolves(cfg.ckpt_path.val)) =>
        /\ EndsInValidation("FileNotFoundError")
        /\ pc = "failed" => error.msg = "No checkpoint found at " \o cfg.ckpt_path.val

C2_Witness ==
    /\ cfg.ckpt_path = [kind |-> "str", val |-> "/nonexistent/file.ckpt"]
    /\ pc = "failed"
    /\ error = [type |-> "FileNotFoundError",
                msg |-> "No checkpoint found at /nonexistent/file.ckpt"]

(* C3 as stated: with the ckpt_path key absent, main ends in the same      *)
(* missing-configuration error (ValueError) as for an explicit null.       *)
C3_AbsentSameAsNull ==
    (cfg.ckpt_path.kind = "absent" /\ pc = "failed") => error.type = "ValueError"

(* C3: with the ckpt_path key absent, main fails before any instantiation, *)
(* with the attribute error of the configuration access, not ValueError.   *)
C3_AbsentFailsInAccess ==
    cfg.ckpt_path.kind = "absent" => EndsInValidation("ConfigAttributeError")

C3_Witness ==
    /\ cfg.ckpt_path.kind = "absent"
    /\ pc = "failed"
    /\ error.type = "ConfigAttributeError"
    /\ NothingInstantiated

(* C4 as stated: with an existing checkpoint and specifications that       *)
(* instantiate without error, every run performs the eight steps once, in  *)
(* order, invokes the evaluation driver once and terminates successfully.  *)
C4_AlwaysSucceeds ==
    (CkptOk /\ NoSpecFails /\ Terminal) =>
        /\ steps = StepOrder
        /\ Len(tests) = 1
        /\ pc = "done"

\* the evaluation driver was invoked once, with the objects this run constructed
InvokedOnceWithConstructed ==
    /\ Len(tests) = 1
    /\ tests[1].datamodule = datamodule
    /\ tests[1].model = model
    /\ tests[1].trainer = trainer
    /\ datamodule.target = DataTarget /\ datamodule.serial = 1
    /\ model.target = ModelTarget /\ model.serial = 2
    /\ trainer.target = TrainerTarget /\ trainer.serial = Len(calls)

(* C4: the steps begun are always an initial part of the fixed order (none *)
(* repeated, none out of order) and the driver is invoked at most once;    *)
(* with an existing checkpoint and specifications that instantiate without *)
(* error, a finished run has performed all eight steps and invoked the     *)
(* driver once with the data module, model and trainer it constructed, and *)
(* it ended successfully exactly when the trainer's test routine returned. *)
C4_OrderedOnceThenTestDecides ==
    /\ IsPrefix(steps, StepOrder)
    /\ Len(tests) <= 1
    /\ (CkptOk /\ NoSpecFails /\ Terminal) =>
          /\ steps = StepOrder
          /\ InvokedOnceWithConstructed
          /\ pc = "done" <=> fault # "test"
          /\ pc = "failed" => error.type = "EvaluationError"

C4_Witness ==
    /\ CkptOk /\ NoSpecFails
    /\ pc = "done"
    /\ steps = StepOrder
    /\ Len(callbacks) = 2
    /\ Len(loggers) = 1
    /\ InvokedOnceWithConstructed

EmptyOrAbsent(m) == ~m.present \/ m.items = <<>>

Warned(msg) == \E i \in 1..Len(warnings) : warnings[i] = msg

(* C6: for an empty or absent callbacks or logger mapping the assembly     *)
(* warns, makes no instantiation call, does not raise and returns the      *)
(* empty list, and main goes on with it to the trainer.                    *)
C6_EmptyWarnsAndReturnsEmpty ==
    /\ (Begun("callbacks") /\ EmptyOrAbsent(cfg.callbacks)) =>
          /\ Assembled("callbacks")
          /\ callbacks = <<>>
          /\ Warned("No callback configs found! Skipping..")
          /\ \A i \in 1..Len(calls) : calls[i].target \notin CallbackTargets \cup {""}
          /\ trainer # NoObject => trainer.callbacks = <<>>
    /\ (Begun("loggers") /\ EmptyOrAbsent(cfg.logger)) =>
          /\ Assembled("loggers")
          /\ loggers = <<>>
          /\ Warned("No logger configs found! Skipping..")
          /\ \A i \in 1..Len(calls) : calls[i].target \notin LoggerTargets \cup {""}
          /\ pc \in {"trainer", "evaluate", "testing", "done", "failed"}
          /\ trainer # NoObject => trainer.logger = <<>>

C6_Witness ==
    /\ cfg.callbacks.present /\ cfg.callbacks.items = <<>>
    /\ ~cfg.logger.present
    /\ pc = "done"
    /\ Len(warnings) = 2
    /\ trainer.callbacks = <<>> /\ trainer.logger = <<>>

(* C7: a failed instantiation ends the run: the failed call is the last    *)
(* call of the run and was made once, the run is in its failure terminal   *)
(* with that error, the evaluation driver has not been invoked, and no     *)
(* partly assembled list has reached main or the trainer.                  *)
C7_InstantiationFailureIsFinal ==
    \A i \in 1..Len(calls) :
        calls[i].target = fault =>
            /\ i = Len(calls)
            /\ pc = "failed"
            /\ error = [type |-> "InstantiationError", msg |-> fault]
            /\ tests = <<>>
            /\ trainer = NoObject
            /\ steps[Len(steps)] = "callbacks" => callbacks = <<>>
            /\ steps[Len(steps)] = "loggers" => loggers = <<>>

C7_Witness ==
    /\ pc = "failed"
    /\ fault = "B"
    /\ Len(calls) = 4
    /\ calls[3].target = "A"
    /\ calls[4].target = "B"
    /\ acc # <<>>
    /\ callbacks = <<>>

(* C8: whenever the trainer's test routine has begun, the checkpoint path  *)
(* handed to it is the configured ckpt_path, is not null and names         *)
(* something that exists on disk.                                          *)
C8_TestOnlyOnExistingCkpt ==
    \A i \in 1..Len(tests) :
        /\ tests[i].ckpt_path = cfg.ckpt_path
        /\ tests[i].ckpt_path.kind = "str"
        /\ Resolves(tests[i].ckpt_path.val)

C8_Witness ==
    /\ pc = "testing"
    /\ Len(tests) = 1
    /\ tests[1].ckpt_path = [kind |-> "str", val |-> "/ckpt/best.ckpt"]

(* C9: the second run on the same configuration and checkpoint makes the   *)
(* same instantiation calls in the same order and the same invocation of   *)
(* the evaluation driver as the first.                                     *)
C9_SecondRunSameTrace ==
    run = 2 =>
        /\ IsPrefix(calls, prevCalls)
        /\ IsPrefix(tests, prevTests)
        /\ Terminal => (calls = prevCalls /\ tests = prevTests)

C9_Witness ==
    /\ run = 2
    /\ pc = "done"
    /\ Len(calls) = 6
    /\ calls = prevCalls
    /\ Len(tests) = 1
    /\ tests = prevTests

(* C10: the trainer is instantiated only after callbacks and loggers have  *)
(* both been assembled, with exactly the two lists the assemblies returned *)
(* as its callbacks and logger parameters, and the trainer handed to the   *)
(* evaluation driver is that trainer.                                      *)
C10_TrainerGetsAssembledLists ==
    /\ \A i \in 1..Len(calls) :
          calls[i].target = TrainerTarget =>
              /\ Assembled("callbacks") /\ Assembled("loggers")
              /\ calls[i].callbacks = callbacks
              /\ calls[i].logger = loggers
              /\ TargetsOf(calls[i].callbacks) = TargetsIn(cfg.callbacks)
              /\ TargetsOf(calls[i].logger) = TargetsIn(cfg.logger)
    /\ trainer # NoObject =>
          /\ trainer.callbacks = callbacks
          /\ trainer.logger = loggers
          /\ calls[Len(calls)] = CallOf(cfg.trainer, callbacks, loggers)
    /\ \A i \in 1..Len(tests) : tests[i].trainer = trainer /\ trainer # NoObject

C10_Witness ==
    /\ pc = "testing"
    /\ Len(trainer.callbacks) = 2
    /\ trainer.callbacks[1].target = "B"
    /\ trainer.callbacks[2].target = "A"
    /\ Len(trainer.logger) = 1
    /\ tests[1].trainer = trainer

====
